---- MODULE Spec2Model ----
(***************************************************************************)
(* Model of the speech-to-text session adapter (RecognizeStream) of        *)
(* src/speech-to-text/recognize-stream.js.                                 *)
(*                                                                         *)
(* The adapter is a Node.js Duplex stream over one W3C WebSocket.  Every   *)
(* handler of the adapter (a caller's write/end/stop/finish call, a socket *)
(* callback, the poll timer) runs to completion on the single event loop,  *)
(* so each is one atomic action.  The handlers are written as operators on *)
(* a record `s' holding the adapter's fields; an action reads the record   *)
(* from the variables, applies the handler and stores the result.          *)
(*                                                                         *)
(* The transport and the Writable machinery are the environment:           *)
(*   - socket is the readyState of this.socket ("none" while this.socket   *)
(*     is undefined, "failed" once onerror was delivered and onclose is    *)
(*     still to come);                                                     *)
(*   - send() on a socket that is still connecting throws; on a socket     *)
(*     that is closing or closed it throws in the node build (websocket    *)
(*     package) and discards the frame, growing bufferedAmount, in the     *)
(*     browser build (native WebSocket);                                   *)
(*   - bufferedAmount is a live counter in the browser build and stays 0   *)
(*     in the node build;                                                  *)
(*   - Writable calls _write for one chunk at a time and queues the rest   *)
(*     until the chunk's callback has been invoked.                        *)
(* `sent' logs every socket.send call, with the readyState and the value   *)
(* of `listening' at the call.  ev, pushed, threw, didClose describe the   *)
(* latest handler run only: the events it raised, the chunks it pushed to  *)
(* the readable side, whether it threw, whether it called socket.close().  *)
(* Listeners are assumed for `error', so raising it does not throw.        *)
(*                                                                         *)
(* The event aggregator (ResultStream) of src/speech-to-text/              *)
(* result-stream.js has its own variables and its own specifications:      *)
(* SpecAggregator for the relaying of events, SpecPromise for promise().   *)
(***************************************************************************)
EXTENDS Integers, Sequences, FiniteSets, TLC

\* ---- bounds ------------------------------------------------------------
MaxWrites == 3
HighWaterMark == 1
MaxListen == 3
MaxResults == 2
DispatchWrites == 1
NumSources == 2
MaxRegistrations == 2
MaxChunks == 3

\* ---- inbound frames ----------------------------------------------------
NoAlternatives == [present |-> FALSE, list |-> <<>>]

Alternatives(l) == [present |-> TRUE, list |-> l]

Entry(f, a) == [final |-> f, alternatives |-> a]

\* an interim result, and final results without an `alternatives' member,
\* with an empty one, and with two alternatives
EntrySet ==
  { Entry(FALSE, Alternatives(<<"hel">>)),
    Entry(TRUE, NoAlternatives),
    Entry(TRUE, Alternatives(<<>>)),
    Entry(TRUE, Alternatives(<<"hi", "hello world">>)) }

RECURSIVE SeqsUpTo(_, _)
SeqsUpTo(S, n) ==
  IF n = 0 THEN { <<>> }
  ELSE LET shorter == SeqsUpTo(S, n - 1)
       IN  shorter \cup { Append(q, e) : q \in shorter, e \in S }

NoResults == [kind |-> "absent", items |-> <<>>]

ResultsArray(items) == [kind |-> "array", items |-> items]

\* a `results' member that is not an array: falsy (0, "", false, null) or
\* truthy (a number, a string, an object)
ResultsOther(k) == [kind |-> k, items |-> <<>>]

\* frame.data: binary, or text that fails to parse, or text that parses to
\* null / a number / a string / an object with the members the handler reads
Scalar(t) == [type |-> t, error |-> "absent", state |-> "absent", results |-> NoResults]

Obj(e, st, r) == [type |-> "object", error |-> e, state |-> st, results |-> r]

NoFrame == Scalar("none")

\* the frames of an ordinary session: a listening report, one final
\* result, an error notice, a frame that does not parse
SessionFrames ==
  { Obj("absent", "listening", NoResults),
    Obj("absent", "absent", ResultsArray(<<Entry(TRUE, Alternatives(<<"hello world">>))>>)),
    Obj("set", "absent", NoResults),
    Scalar("malformed") }

ResultFrames == { Obj("absent", "absent", ResultsArray(a)) : a \in SeqsUpTo(EntrySet, MaxResults) }

ShapeFrames ==
  { Obj(e, st, r) : e \in {"absent", "set"},
                    st \in {"absent", "listening", "other"},
                    r \in { NoResults, ResultsOther("truthy"),
                            ResultsArray(<<Entry(TRUE, Alternatives(<<"hello world">>))>>) } }
    \cup { Obj("falsy", "absent", NoResults), Obj("absent", "absent", ResultsOther("falsy")) }

FrameSet ==
  { Scalar(t) : t \in {"binary", "malformed", "null", "number", "string"} }
    \cup ShapeFrames \cup ResultFrames

\* ---- state -------------------------------------------------------------
VARIABLES
  build,          \* "node" | "browser": which WebSocket implementation
  listening,      \* this.listening
  initialized,    \* this.initialized (also: the 'finish' listener is attached)
  finished,       \* this.finished
  socket,         \* readyState of this.socket
  nsock,          \* number of transports constructed
  nopen,          \* number of onopen callbacks delivered
  deferredStop,   \* a once('connect') handler of finish() is pending
  closeCalled,    \* socket.close() has been called by the adapter
  sent,           \* log of socket.send calls
  bufferedAmount, \* this.socket.bufferedAmount
  discarded,      \* the part of bufferedAmount that belongs to discarded frames
  wq,             \* Writable's queue of chunks accepted but not yet in _write
  cur,            \* the chunk whose _write is in progress (NoChunk if none)
  wphase,         \* "idle" | "waitListening" | "polling" | "stuck"
  done,           \* log of invoked write callbacks
  nextId,         \* id the next written chunk gets
  ending,         \* the caller has called end()
  finishEmitted,  \* Writable has raised 'finish'
  nlisten,        \* listening reports dispatched
  ended,          \* number of push(null) calls
  lfalls,         \* number of times listening went from true to false
  ev,             \* events raised by the latest handler
  pushed,         \* chunks pushed to the readable side by the latest handler
  threw,          \* the latest handler threw
  didClose,       \* the latest handler called socket.close()
  endAt,          \* events the latest handler had raised when it called push(null), -1 if it did not
  closeArgs,      \* the arguments of the `close' event the latest handler raised
  lastOp,         \* the latest handler and its input
  \* -- ResultStream
  errorSources,     \* this.errorSources
  allEventSources,  \* this.allEventSources
  propagatedEvents, \* this.propagatedEvents
  relays,           \* relays[src][name]: relay handlers attached to src for name
  aggListeners,     \* event names a listener was added for on the aggregator
  aggEmitted,       \* events the latest source emission raised on the aggregator
  aggOp,            \* the latest aggregator operation
  \* -- ResultStream.prototype.promise
  results,          \* the chunks collected by promise()
  settled,          \* "pending" | "resolved" | "rejected"
  value,            \* what the promise resolved to
  streamEnded,      \* the stream has raised `end'
  streamErrored,    \* the stream has raised `error'
  endThrew,         \* the `end' handler threw
  firstSignal       \* which of `end' and `error' the stream raised first

vars == << build, listening, initialized, finished, socket, nsock, nopen,
           deferredStop, closeCalled, sent, bufferedAmount, discarded, wq, cur, wphase,
           done, nextId, ending, finishEmitted, nlisten, ended, lfalls,
           ev, pushed, threw, didClose, endAt, closeArgs, lastOp >>

aggVars == << errorSources, allEventSources, propagatedEvents, relays,
             aggListeners, aggEmitted, aggOp >>

promiseVars == << results, settled, value, streamEnded, streamErrored, endThrew,
                 firstSignal >>

adapterVars == vars

allVars == << vars, aggVars, promiseVars >>

NoChunk == 0

\* the transport's close event e: e.code, e.reason
CloseEvent(code, reason) == [code |-> code, reason |-> reason]

NoCloseEvent == CloseEvent(0, "")

\* a normal closure and an abnormal one
CloseEvents == { CloseEvent(1000, "Normal closure"), CloseEvent(1006, "connection failed") }

\* the adapter's fields as one record, with the per-handler logs cleared
St ==
  [ listening |-> listening, initialized |-> initialized, finished |-> finished,
    socket |-> socket, nsock |-> nsock, deferredStop |-> deferredStop,
    closeCalled |-> closeCalled, sent |-> sent, bufferedAmount |-> bufferedAmount,
    discarded |-> discarded,
    wq |-> wq, cur |-> cur, wphase |-> wphase, done |-> done,
    ended |-> ended, lfalls |-> lfalls,
    ev |-> <<>>, pushed |-> <<>>, threw |-> FALSE, didClose |-> FALSE,
    endAt |-> -1, closeArgs |-> NoCloseEvent ]

Commit(s) ==
  /\ listening' = s.listening
  /\ initialized' = s.initialized
  /\ finished' = s.finished
  /\ socket' = s.socket
  /\ nsock' = s.nsock
  /\ deferredStop' = s.deferredStop
  /\ closeCalled' = s.closeCalled
  /\ sent' = s.sent
  /\ bufferedAmount' = s.bufferedAmount
  /\ discarded' = s.discarded
  /\ wq' = s.wq
  /\ cur' = s.cur
  /\ wphase' = s.wphase
  /\ done' = s.done
  /\ ended' = s.ended
  /\ lfalls' = s.lfalls
  /\ ev' = s.ev
  /\ pushed' = s.pushed
  /\ threw' = s.threw
  /\ didClose' = s.didClose
  /\ endAt' = s.endAt
  /\ closeArgs' = s.closeArgs

Op(name, hard, frame) == [op |-> name, hard |-> hard, frame |-> frame, e |-> NoCloseEvent]

\* ---- the transport, as the adapter uses it -------------------------------
\* socket.send(frame) throws instead of queueing the frame
Rejects(rs) ==
  \/ rs = "connecting"
  \/ rs \in {"closing", "failed", "closed"} /\ build = "node"

\* socket.send(frame): the call is logged; an accepted or discarded frame
\* grows bufferedAmount in the browser build.  bufferedAmount is counted in
\* frames and saturates one above the high-water mark: the adapter only
\* compares it with the mark.  A discarded frame is never transmitted, so its
\* share of bufferedAmount never drains
send(s, kind, id) ==
  LET logged == [s EXCEPT !.sent = Append(@, [kind |-> kind, id |-> id,
                                               rs |-> s.socket, listening |-> s.listening])]
      grow(n) == IF n + 1 > HighWaterMark THEN HighWaterMark + 1 ELSE n + 1
  IN  IF Rejects(s.socket) THEN [logged EXCEPT !.threw = TRUE]
      ELSE IF build = "node" THEN logged
      ELSE IF s.socket = "open" THEN [logged EXCEPT !.bufferedAmount = grow(@)]
      ELSE [logged EXCEPT !.bufferedAmount = grow(@), !.discarded = grow(@)]

\* socket.close()
close(s) ==
  [s EXCEPT !.closeCalled = TRUE, !.didClose = TRUE,
            !.socket = IF @ \in {"connecting", "open"} THEN "closing" ELSE @]

emit(s, event) == [s EXCEPT !.ev = Append(@, event)]

\* ---- RecognizeStream -----------------------------------------------------
initialize(s) ==
  [s EXCEPT !.socket = "connecting", !.nsock = @ + 1, !.initialized = TRUE]

\* a lazy connection without its guard
needsInitializeUnguarded(s) == TRUE

\* the guard of _write's lazy connection
needsInitialize(s) == ~s.initialized

RECURSIVE afterSend(_)
RECURSIVE _write(_, _)
\* the write callback `next': Writable records the completion and hands the
\* next queued chunk to _write
next(s) ==
  LET completed == [s EXCEPT !.done = Append(@, [id |-> s.cur,
                                                  bufferedAmount |-> s.bufferedAmount,
                                                  nsent |-> Len(s.sent)]),
                             !.cur = NoChunk, !.wphase = "idle"]
  IN  IF completed.wq = <<>> THEN completed
      ELSE _write([completed EXCEPT !.wq = Tail(@)], Head(completed.wq))

\* flow control that never waits
afterSendNoWait(s) == next(s)

afterSend(s) ==
  IF s.bufferedAmount <= HighWaterMark THEN next(s)
  ELSE [s EXCEPT !.wphase = "polling"]

\* socket.send(chunk); this.afterSend(callback)
sendChunk(s) ==
  LET s1 == send(s, "audio", s.cur)
  IN  IF s1.threw THEN [s1 EXCEPT !.wphase = "stuck"] ELSE afterSend(s1)

\* a write path that asks whether the transport exists, not whether the
\* service is listening
writeOnceInitialized(s, chunk) ==
  LET s0 == [s EXCEPT !.cur = chunk]
  IN  IF s0.initialized THEN sendChunk(s0)
      ELSE [initialize(s0) EXCEPT !.wphase = "waitListening"]

\* RecognizeStream.prototype._write
_write(s, chunk) ==
  LET s0 == [s EXCEPT !.cur = chunk]
  IN  IF s0.listening THEN sendChunk(s0)
      ELSE LET s1 == IF needsInitialize(s0) THEN initialize(s0) ELSE s0
           IN  [s1 EXCEPT !.wphase = "waitListening"]

\* finish() without its idempotency guard
finishUnguarded(s) ==
  LET s1 == [s EXCEPT !.finished = TRUE]
  IN  IF s1.socket # "none" THEN send(s1, "stop", 0)
      ELSE [s1 EXCEPT !.deferredStop = TRUE]

finish(s) ==
  IF s.finished THEN s
  ELSE LET s1 == [s EXCEPT !.finished = TRUE]
       IN  IF s1.socket # "none" THEN send(s1, "stop", 0)
           ELSE [s1 EXCEPT !.deferredStop = TRUE]

stop(s, hard) ==
  LET s1 == emit(s, "stop")
  IN  IF hard
      THEN IF s1.socket = "none" THEN [s1 EXCEPT !.threw = TRUE] ELSE close(s1)
      ELSE finish(s1)

onerror(s) ==
  emit([s EXCEPT !.listening = FALSE,
                 !.lfalls = IF s.listening THEN @ + 1 ELSE @], "error")

onopen(s) ==
  LET s1 == emit(send(s, "start", 0), "connect")
  IN  IF s1.deferredStop
      THEN send([s1 EXCEPT !.deferredStop = FALSE], "stop", 0)
      ELSE s1

\* self.push(null)
pushNull(s) == [s EXCEPT !.ended = @ + 1, !.endAt = Len(s.ev)]

\* a close handler that ends the readable side whatever `listening' is
oncloseAlwaysEnds(s, e) ==
  [emit(pushNull([s EXCEPT !.listening = FALSE,
                           !.lfalls = IF s.listening THEN @ + 1 ELSE @]), "close")
     EXCEPT !.closeArgs = CloseEvent(e.code, e.reason)]

onclose(s, e) ==
  LET s1 == IF s.listening
            THEN pushNull([s EXCEPT !.listening = FALSE, !.lfalls = @ + 1])
            ELSE s
  IN  [emit(s1, "close") EXCEPT !.closeArgs = CloseEvent(e.code, e.reason)]

\* a protocol error handled like a transport error
emitErrorAsTransportError(s) == onerror(s)

emitError(s) == emit(s, "error")

RECURSIVE forEach(_, _)
\* data.results.forEach(function (result) {...})
forEach(s, items) ==
  IF items = <<>> THEN s
  ELSE LET result == Head(items)
           s1 == emit(s, "result")
       IN  IF result.final /\ result.alternatives.present
           THEN IF result.alternatives.list = <<>>
                THEN [s1 EXCEPT !.threw = TRUE]
                ELSE forEach([s1 EXCEPT !.pushed = Append(@, Head(result.alternatives.list))],
                             Tail(items))
           ELSE forEach(s1, Tail(items))

\* the branch for data.state === 'listening'
onlistening(s) ==
  IF ~s.listening
  THEN LET s1 == emit([s EXCEPT !.listening = TRUE], "listening")
       IN  IF s1.wphase = "waitListening" THEN sendChunk(s1) ELSE s1
  ELSE close(pushNull([s EXCEPT !.listening = FALSE, !.lfalls = @ + 1]))

\* a dispatch that looks at the state member before the error member
onmessageStateFirst(s, frame) ==
  IF frame.type = "binary" THEN emitError(s)
  ELSE IF frame.type = "malformed" THEN emitError(s)
  ELSE LET s1 == emit(s, "message")
       IN  IF frame.type = "null" THEN [s1 EXCEPT !.threw = TRUE]
           ELSE IF frame.state = "listening" THEN onlistening(s1)
           ELSE IF frame.error = "set" THEN emitError(s1)
           ELSE IF frame.results.kind = "array"
                THEN forEach(emit(s1, "results"), frame.results.items)
           ELSE IF frame.results.kind = "truthy"
                THEN [emit(s1, "results") EXCEPT !.threw = TRUE]
           ELSE emitError(s1)

\* socket.onmessage
onmessage(s, frame) ==
  IF frame.type = "binary" THEN emitError(s)
  ELSE IF frame.type = "malformed" THEN emitError(s)
  ELSE LET s1 == emit(s, "message")
       IN  IF frame.type = "null" THEN [s1 EXCEPT !.threw = TRUE]
           ELSE IF frame.error = "set" THEN emitError(s1)
           ELSE IF frame.state = "listening" THEN onlistening(s1)
           ELSE IF frame.results.kind = "array"
                THEN forEach(emit(s1, "results"), frame.results.items)
           ELSE IF frame.results.kind = "truthy"
                THEN [emit(s1, "results") EXCEPT !.threw = TRUE]
           ELSE emitError(s1)

\* ---- ResultStream: the event aggregator ------------------------------------
Sources == 1..NumSources

EventNames == {"error", "close", "data", "end"}

AggOp(name, src, event) == [op |-> name, src |-> src, event |-> event]

\* the aggregator's fields as one record
Agg ==
  [ errorSources |-> errorSources, allEventSources |-> allEventSources,
    propagatedEvents |-> propagatedEvents, relays |-> relays ]

CommitAgg(a) ==
  /\ errorSources' = a.errorSources
  /\ allEventSources' = a.allEventSources
  /\ propagatedEvents' = a.propagatedEvents
  /\ relays' = a.relays

Contains(list, x) == \E i \in DOMAIN list : list[i] = x

\* source.on(eventName, this.emit.bind(this, eventName))
on(a, src, name) == [a EXCEPT !.relays[src][name] = @ + 1]

RECURSIVE onEach(_, _, _)
\* sources.forEach(function(source) { source.on(eventName, ...) })
onEach(a, sources, name) ==
  IF sources = <<>> THEN a
  ELSE onEach(on(a, Head(sources), name), Tail(sources), name)

RECURSIVE onEvery(_, _, _)
\* this.propagatedEvents.forEach(function(eventName) { sourceStream.on(eventName, ...) })
onEvery(a, src, names) ==
  IF names = <<>> THEN a
  ELSE onEvery(on(a, src, Head(names)), src, Tail(names))

propagateErrorsFrom(a, src) ==
  LET a1 == [a EXCEPT !.errorSources = Append(@, src)]
  IN  IF Contains(a1.propagatedEvents, "error") THEN on(a1, src, "error") ELSE a1

propagateEventsFrom(a, src) ==
  LET a1 == [a EXCEPT !.allEventSources = Append(@, src)]
  IN  onEvery(a1, src, a1.propagatedEvents)

propagateEvent(a, name) ==
  IF name = "data" \/ name = "end" THEN a
  ELSE IF ~Contains(a.propagatedEvents, name)
       THEN LET a1 == [a EXCEPT !.propagatedEvents = Append(@, name)]
                sources == IF name = "error" THEN a1.errorSources \o a1.allEventSources
                           ELSE a1.allEventSources
                a2 == [a1 EXCEPT !.propagatedEvents = Append(@, name)]
            IN  onEach(a2, sources, name)
       ELSE a

InitAggregator ==
  /\ errorSources = <<>>
  /\ allEventSources = <<>>
  /\ propagatedEvents = <<>>
  /\ relays = [src \in Sources |-> [name \in EventNames |-> 0]]
  /\ aggListeners = {}
  /\ aggEmitted = <<>>
  /\ aggOp = AggOp("init", 0, "")

Registrations == Len(errorSources) + Len(allEventSources)

PropagateErrorsFrom ==
  /\ Registrations < MaxRegistrations
  /\ \E src \in Sources :
       /\ CommitAgg(propagateErrorsFrom(Agg, src))
       /\ aggOp' = AggOp("propagateErrorsFrom", src, "")
  /\ aggEmitted' = <<>>
  /\ UNCHANGED << aggListeners, adapterVars, promiseVars >>

PropagateEventsFrom ==
  /\ Registrations < MaxRegistrations
  /\ \E src \in Sources :
       /\ CommitAgg(propagateEventsFrom(Agg, src))
       /\ aggOp' = AggOp("propagateEventsFrom", src, "")
  /\ aggEmitted' = <<>>
  /\ UNCHANGED << aggListeners, adapterVars, promiseVars >>

\* a listener is added on the aggregator: `newListener' runs propagateEvent
AddListener ==
  /\ \E name \in EventNames :
       /\ CommitAgg(propagateEvent(Agg, name))
       /\ aggListeners' = aggListeners \cup {name}
       /\ aggOp' = AggOp("on", 0, name)
  /\ aggEmitted' = <<>>
  /\ UNCHANGED << adapterVars, promiseVars >>

\* a source raises an event: each relay attached to it for that name raises
\* the event on the aggregator
SourceEmit ==
  /\ \E src \in Sources, name \in EventNames :
       /\ aggEmitted' = [i \in 1..relays[src][name] |-> name]
       /\ aggOp' = AggOp("emit", src, name)
  /\ UNCHANGED << errorSources, allEventSources, propagatedEvents, relays,
                  aggListeners, adapterVars, promiseVars >>

NextAggregator ==
  \/ PropagateErrorsFrom
  \/ PropagateEventsFrom
  \/ AddListener
  \/ SourceEmit

\* ---- ResultStream.prototype.promise -----------------------------------------
\* chunks: byte buffers (sequences of byte values) and strings (sequences of
\* characters)
Buf(bytes) == [kind |-> "buffer", bytes |-> bytes, text |-> <<>>]

Str(text) == [kind |-> "string", bytes |-> <<>>, text |-> text]

\* 'a' is the byte 97, U+00E9 is the two bytes 195 169
ChunkSet == {Buf(<<97>>), Buf(<<195>>), Buf(<<169>>), Str(<<"a">>)}

isBuffer(list, i) == i \in DOMAIN list /\ list[i].kind = "buffer"

RECURSIVE concat(_)
\* Buffer.concat(list), for a list of buffers
concat(list) ==
  IF list = <<>> THEN <<>> ELSE Head(list).bytes \o concat(Tail(list))

RECURSIVE toString(_)
\* buffer.toString(): UTF-8 decoding, U+FFFD for a byte that starts or
\* continues nothing
toString(bytes) ==
  IF bytes = <<>> THEN <<>>
  ELSE IF bytes[1] = 97 THEN <<"a">> \o toString(Tail(bytes))
  ELSE IF bytes[1] = 195 /\ Len(bytes) > 1 /\ bytes[2] = 169
       THEN <<"U+00E9">> \o toString(Tail(Tail(bytes)))
  ELSE <<"U+FFFD">> \o toString(Tail(bytes))

NoValue == [kind |-> "none", text |-> <<>>, items |-> <<>>]

Text(text) == [kind |-> "text", text |-> text, items |-> <<>>]

List(items) == [kind |-> "list", text |-> <<>>, items |-> items]

\* the promise's fields as one record
Promise == [results |-> results, settled |-> settled, value |-> value, endThrew |-> endThrew]

CommitPromise(p) ==
  /\ results' = p.results
  /\ settled' = p.settled
  /\ value' = p.value
  /\ endThrew' = p.endThrew

\* a promise settles once: later calls of resolve and reject do nothing
resolve(p, v) ==
  IF p.settled = "pending" THEN [p EXCEPT !.settled = "resolved", !.value = v] ELSE p

reject(p) ==
  IF p.settled = "pending" THEN [p EXCEPT !.settled = "rejected"] ELSE p

ondata(p, chunk) == [p EXCEPT !.results = Append(@, chunk)]

\* Buffer.concat throws a TypeError on a list element that is not a buffer
onend(p) ==
  IF isBuffer(p.results, 1)
  THEN IF \A i \in DOMAIN p.results : isBuffer(p.results, i)
       THEN resolve(p, Text(toString(concat(p.results))))
       ELSE [p EXCEPT !.endThrew = TRUE]
  ELSE resolve(p, List(p.results))

InitPromise ==
  /\ results = <<>>
  /\ settled = "pending"
  /\ value = NoValue
  /\ streamEnded = FALSE
  /\ streamErrored = FALSE
  /\ endThrew = FALSE
  /\ firstSignal = "none"

StreamData ==
  /\ ~streamEnded
  /\ Len(results) < MaxChunks
  /\ \E chunk \in ChunkSet : CommitPromise(ondata(Promise, chunk))
  /\ UNCHANGED << streamEnded, streamErrored, firstSignal, adapterVars, aggVars >>

StreamEnd ==
  /\ ~streamEnded
  /\ streamEnded' = TRUE
  /\ firstSignal' = IF firstSignal = "none" THEN "end" ELSE firstSignal
  /\ CommitPromise(onend(Promise))
  /\ UNCHANGED << streamErrored, adapterVars, aggVars >>

StreamError ==
  /\ ~streamErrored
  /\ streamErrored' = TRUE
  /\ firstSignal' = IF firstSignal = "none" THEN "error" ELSE firstSignal
  /\ CommitPromise(reject(Promise))
  /\ UNCHANGED << streamEnded, adapterVars, aggVars >>

NextPromise ==
  \/ StreamData
  \/ StreamEnd
  \/ StreamError

\* ---- actions -------------------------------------------------------------
Init ==
  /\ build \in {"node", "browser"}
  /\ listening = FALSE
  /\ initialized = FALSE
  /\ finished = FALSE
  /\ socket = "none"
  /\ nsock = 0
  /\ nopen = 0
  /\ deferredStop = FALSE
  /\ closeCalled = FALSE
  /\ sent = <<>>
  /\ bufferedAmount = 0
  /\ discarded = 0
  /\ wq = <<>>
  /\ cur = NoChunk
  /\ wphase = "idle"
  /\ done = <<>>
  /\ nextId = 1
  /\ ending = FALSE
  /\ finishEmitted = FALSE
  /\ nlisten = 0
  /\ ended = 0
  /\ lfalls = 0
  /\ ev = <<>>
  /\ pushed = <<>>
  /\ threw = FALSE
  /\ didClose = FALSE
  /\ endAt = -1
  /\ closeArgs = NoCloseEvent
  /\ lastOp = Op("init", FALSE, NoFrame)
  /\ InitAggregator
  /\ InitPromise

\* the caller writes a chunk: Writable calls _write at once if no write is in
\* progress and queues the chunk otherwise
WriteCall(limit) ==
  /\ ~ending
  /\ nextId <= limit
  /\ Commit(IF cur = NoChunk THEN _write(St, nextId)
            ELSE [St EXCEPT !.wq = Append(@, nextId)])
  /\ nextId' = nextId + 1
  /\ lastOp' = Op("write", FALSE, NoFrame)
  /\ UNCHANGED << aggVars, promiseVars, build, nopen, ending, finishEmitted, nlisten >>

\* the caller ends the input
EndCall ==
  /\ ~ending
  /\ ending' = TRUE
  /\ Commit(St)
  /\ lastOp' = Op("end", FALSE, NoFrame)
  /\ UNCHANGED << aggVars, promiseVars, build, nopen, nextId, finishEmitted, nlisten >>

\* Writable raises 'finish' once the input has ended and every write has
\* completed; finish() listens from initialize() on
FinishEvent ==
  /\ ending
  /\ ~finishEmitted
  /\ cur = NoChunk
  /\ wq = <<>>
  /\ finishEmitted' = TRUE
  /\ Commit(IF initialized THEN finish(St) ELSE St)
  /\ lastOp' = Op("finishEvent", FALSE, NoFrame)
  /\ UNCHANGED << aggVars, promiseVars, build, nopen, nextId, ending, nlisten >>

StopCall ==
  \E hard \in BOOLEAN :
    /\ Commit(stop(St, hard))
    /\ lastOp' = Op("stop", hard, NoFrame)
    /\ UNCHANGED << aggVars, promiseVars, build, nopen, nextId, ending, finishEmitted, nlisten >>

FinishCall ==
  /\ Commit(finish(St))
  /\ lastOp' = Op("finish", FALSE, NoFrame)
  /\ UNCHANGED << aggVars, promiseVars, build, nopen, nextId, ending, finishEmitted, nlisten >>

SocketOpen ==
  /\ socket = "connecting"
  /\ Commit(onopen([St EXCEPT !.socket = "open"]))
  /\ nopen' = nopen + 1
  /\ lastOp' = Op("open", FALSE, NoFrame)
  /\ UNCHANGED << aggVars, promiseVars, build, nextId, ending, finishEmitted, nlisten >>

IsListeningReport(frame) ==
  frame.type = "object" /\ frame.error # "set" /\ frame.state = "listening"

\* a frame arrives; the node build still delivers the frames of an opened
\* connection after close() was called, until the transport reports close
SocketMessage(frame) ==
  /\ socket = "open" \/ (socket = "closing" /\ build = "node" /\ nopen > 0)
  /\ IsListeningReport(frame) => nlisten < MaxListen
  /\ Commit(onmessage(St, frame))
  /\ nlisten' = IF IsListeningReport(frame) THEN nlisten + 1 ELSE nlisten
  /\ lastOp' = Op("message", FALSE, frame)
  /\ UNCHANGED << aggVars, promiseVars, build, nopen, nextId, ending, finishEmitted >>

SocketError ==
  /\ socket \in {"connecting", "open", "closing"}
  /\ Commit(onerror([St EXCEPT !.socket = "failed"]))
  /\ lastOp' = Op("error", FALSE, NoFrame)
  /\ UNCHANGED << aggVars, promiseVars, build, nopen, nextId, ending, finishEmitted, nlisten >>

SocketClose ==
  /\ socket \in {"connecting", "open", "closing", "failed"}
  /\ \E e \in CloseEvents :
       /\ Commit(onclose([St EXCEPT !.socket = "closed"], e))
       /\ lastOp' = [Op("close", FALSE, NoFrame) EXCEPT !.e = e]
  /\ UNCHANGED << aggVars, promiseVars, build, nopen, nextId, ending, finishEmitted, nlisten >>

\* setTimeout(this.afterSend.bind(this, next), 10) fires
PollTimer ==
  /\ wphase = "polling"
  /\ Commit(afterSend(St))
  /\ lastOp' = Op("poll", FALSE, NoFrame)
  /\ UNCHANGED << aggVars, promiseVars, build, nopen, nextId, ending, finishEmitted, nlisten >>

\* the transport transmits buffered bytes
Drain ==
  /\ socket \in {"open", "closing"}
  /\ bufferedAmount > discarded
  /\ \E b \in discarded..(bufferedAmount - 1) : Commit([St EXCEPT !.bufferedAmount = b])
  /\ lastOp' = Op("drain", FALSE, NoFrame)
  /\ UNCHANGED << aggVars, promiseVars, build, nopen, nextId, ending, finishEmitted, nlisten >>

Control ==
  \/ EndCall
  \/ FinishEvent
  \/ StopCall
  \/ FinishCall
  \/ SocketOpen
  \/ SocketError
  \/ SocketClose
  \/ PollTimer
  \/ Drain

Next ==
  \/ WriteCall(MaxWrites)
  \/ Control
  \/ \E frame \in SessionFrames : SocketMessage(frame)

Spec == Init /\ [][Next]_allVars

\* the same sessions under fair scheduling: a timer that is set fires, and a
\* transport that can open, deliver, transmit or close eventually does
SpecLive ==
  /\ Init /\ [][Next]_allVars
  /\ WF_allVars(PollTimer)
  /\ WF_allVars(Drain)
  /\ WF_allVars(SocketOpen)
  /\ WF_allVars(\E frame \in SessionFrames : SocketMessage(frame))
  /\ WF_allVars(SocketClose)

\* sessions of one written chunk that receive every shape of inbound frame
NextDispatch ==
  \/ WriteCall(DispatchWrites)
  \/ StopCall
  \/ SocketOpen
  \/ SocketError
  \/ SocketClose
  \/ \E frame \in FrameSet : SocketMessage(frame)

SpecDispatch == Init /\ [][NextDispatch]_allVars

SpecAggregator == Init /\ [][NextAggregator]_allVars

SpecPromise == Init /\ [][NextPromise]_allVars

\* ---- properties ----------------------------------------------------------
Calls(kind) == { i \in DOMAIN sent : sent[i].kind = kind }

DoneIds == { done[k].id : k \in DOMAIN done }

\* C1: the opening {action:'start'} frame is handed to the transport once per
\* reported open and never while the transport is not open, and an adapter
\* constructs at most one transport, whatever is written, stopped or received.
C1_OpeningFrameOnce ==
  /\ nsock <= 1
  /\ nopen <= 1
  /\ Cardinality(Calls("start")) = nopen
  /\ \A i \in Calls("start") : sent[i].rs = "open"

\* a session that opened, sent audio, was stopped and went on writing
C1_Witness ==
  /\ nopen = 1
  /\ Cardinality(Calls("start")) = 1
  /\ finished
  /\ Len(done) >= 2
  /\ nlisten >= 2

C3_NoAudioBeforeListening ==
  /\ \A i \in Calls("audio") : sent[i].listening
  /\ nlisten = 0 => Calls("audio") = {}
  /\ wphase = "waitListening" =>
       /\ cur # NoChunk
       /\ cur \notin DoneIds
       /\ \A i \in Calls("audio") : sent[i].id # cur

\* the listening report releases the held chunk
C3_Witness ==
  /\ lastOp.op = "message"
  /\ ev = <<"message", "listening">>
  /\ sent # <<>>
  /\ sent[Len(sent)].kind = "audio"
  /\ sent[Len(sent)].listening
  /\ wq = <<>>

\* C4: chunks are handed to the transport in the order written; a write's
\* callback fires only after its own chunk was handed over and with
\* bufferedAmount at or below the high-water mark, and the next chunk is sent
\* only after that callback; while bufferedAmount is above the mark the
\* callback is not invoked and the poll timer stays armed.
AudioSent == SelectSeq(sent, LAMBDA e : e.kind = "audio")

C4_OrderedWrites ==
  /\ \A n \in DOMAIN AudioSent : AudioSent[n].id = n
  /\ \A k \in DOMAIN done :
       /\ done[k].id = k
       /\ done[k].bufferedAmount <= HighWaterMark
       /\ \E i \in 1..done[k].nsent : sent[i].kind = "audio" /\ sent[i].id = k
  /\ \A i \in Calls("audio") :
       sent[i].id > 1 => \E k \in DOMAIN done : done[k].id = sent[i].id - 1 /\ done[k].nsent < i
  /\ wphase = "polling" =>
       /\ cur \notin DoneIds
       /\ \E i \in Calls("audio") : sent[i].id = cur
  /\ (lastOp.op = "poll" /\ bufferedAmount > HighWaterMark) => wphase = "polling"

\* three chunks went out, the last one completed from the poll timer after
\* the buffer drained
C4_Witness ==
  /\ Len(done) = MaxWrites
  /\ lastOp.op = "poll"
  /\ Len(AudioSent) = MaxWrites

\* C5: over a session `listening' goes from true to false once and
\* end-of-output is signalled once, however many listening reports, transport
\* errors or a transport close follow the drain-confirming report.
C5_ListeningFallsOnce ==
  /\ lfalls <= 1
  /\ ended <= 1

\* C6: the stop frame is never handed to the transport before the opening
\* frame: finish() sends at once only when connected and otherwise defers the
\* frame to `connect'.
C6_StopAfterOpening ==
  \A i \in Calls("stop") : \E j \in 1..(i - 1) : sent[j].kind = "start"

\* C7: a results payload raises `message', `results' and one `result' per
\* entry in order, pushes the first transcripts of the final entries that
\* have an alternative, in order, and nothing fails.
RECURSIVE FinalTranscripts(_)
FinalTranscripts(items) ==
  IF items = <<>> THEN <<>>
  ELSE LET r == Head(items)
           rest == FinalTranscripts(Tail(items))
       IN  IF r.final /\ r.alternatives.present /\ r.alternatives.list # <<>>
           THEN <<r.alternatives.list[1]>> \o rest
           ELSE rest

IsResultsFrame(frame) ==
  /\ frame.type = "object"
  /\ frame.error = "absent"
  /\ frame.state # "listening"
  /\ frame.results.kind = "array"

C7_ResultsDispatch ==
  (lastOp.op = "message" /\ IsResultsFrame(lastOp.frame)) =>
    /\ ev = <<"message", "results">> \o [i \in 1..Len(lastOp.frame.results.items) |-> "result"]
    /\ pushed = FinalTranscripts(lastOp.frame.results.items)
    /\ ~threw

\* C8: a binary frame or a frame of malformed JSON raises exactly one `error'
\* and no `message', and changes nothing of the session: the three flags keep
\* their values, the transport is not closed, the readable side is not ended.
IsUndecodable(frame) == frame.type \in {"binary", "malformed"}

C8_UndecodableFrame ==
  [][ (lastOp'.op = "message" /\ IsUndecodable(lastOp'.frame)) =>
        /\ ev' = <<"error">>
        /\ ~threw'
        /\ listening' = listening
        /\ initialized' = initialized
        /\ finished' = finished
        /\ socket' = socket
        /\ ~didClose'
        /\ closeCalled' = closeCalled
        /\ ended' = ended
        /\ pushed' = <<>>
        /\ sent' = sent ]_vars

\* a malformed frame arrives in a listening, finished session
C8_Witness ==
  /\ lastOp.op = "message"
  /\ lastOp.frame.type = "malformed"
  /\ ev = <<"error">>
  /\ listening
  /\ finished
  /\ socket = "open"

\* C9: a text frame that parses but has no error member, no listening state
\* and no results array raises `message' and then exactly one `error', and
\* the handler does not throw.
IsUnrecognised(frame) ==
  /\ frame.type \in {"null", "number", "string", "object"}
  /\ frame.error = "absent"
  /\ frame.state # "listening"
  /\ frame.results.kind # "array"

C9_UnrecognisedFrame ==
  (lastOp.op = "message" /\ IsUnrecognised(lastOp.frame)) =>
    /\ ev = <<"message", "error">>
    /\ ~threw

\* C10: stop(hard) raises `stop' in every state; a hard stop then closes the
\* transport and hands it no frame, a soft stop does what finish() does.
C10_StopControl ==
  [][ lastOp'.op = "stop" =>
        /\ ev' = <<"stop">>
        /\ lastOp'.hard =>
             /\ didClose'
             /\ sent' = sent
             /\ finished' = finished
             /\ deferredStop' = deferredStop
        /\ ~lastOp'.hard =>
             /\ ~didClose'
             /\ finished'
             /\ finished => (sent' = sent /\ deferredStop' = deferredStop)
             /\ (~finished /\ socket # "none") =>
                  /\ Len(sent') = Len(sent) + 1
                  /\ sent'[Len(sent')].kind = "stop"
                  /\ deferredStop' = deferredStop
             /\ (~finished /\ socket = "none") => (sent' = sent /\ deferredStop') ]_vars

\* C11: a transport close raises exactly one `close' event with the
\* transport's code and reason; if `listening' was true it is cleared and
\* push(null) is called before the event is raised, and if it was false the
\* handler does not call push(null).
C11_CloseHandler ==
  [][ lastOp'.op = "close" =>
        /\ ev' = <<"close">>
        /\ closeArgs' = lastOp'.e
        /\ ~threw'
        /\ ~listening'
        /\ listening => (ended' = ended + 1 /\ endAt' = 0 /\ lfalls' = lfalls + 1)
        /\ ~listening => (ended' = ended /\ endAt' = -1 /\ lfalls' = lfalls) ]_vars

\* the transport closes abnormally on a listening session
C11_Witness ==
  /\ lastOp.op = "close"
  /\ lastOp.e.code = 1006
  /\ closeArgs = lastOp.e
  /\ endAt = 0
  /\ ended = 1
  /\ ev = <<"close">>

\* C12: the aggregator attaches at most one relay handler per source per event
\* name, so one emission by a source raises the event at most once on the
\* aggregator, and propagatedEvents holds each name at most once.
C12_SingleRelay ==
  /\ \A src \in Sources, name \in EventNames : relays[src][name] <= 1
  /\ Len(aggEmitted) <= 1
  /\ \A i, j \in DOMAIN propagatedEvents :
       propagatedEvents[i] = propagatedEvents[j] => i = j

Occurrences(list, x) == Cardinality({i \in DOMAIN list : list[i] = x})

\* C13: a `close' raised by a source registered once for all events is raised
\* once on the aggregator when a close listener is attached (two sources: two
\* close events); an `error' raised by a registered source is raised on the
\* aggregator when an error listener is attached, whichever came first;
\* `data' and `end' are never wired to a source.
C13_Relaying ==
  /\ ( /\ aggOp.op = "emit" /\ aggOp.event = "close"
       /\ "close" \in aggListeners
       /\ Occurrences(allEventSources, aggOp.src) = 1 )
     => aggEmitted = <<"close">>
  /\ ( /\ aggOp.op = "emit" /\ aggOp.event = "error"
       /\ "error" \in aggListeners
       /\ Occurrences(errorSources \o allEventSources, aggOp.src) > 0 )
     => (aggEmitted # <<>> /\ \A i \in DOMAIN aggEmitted : aggEmitted[i] = "error")
  /\ \A src \in Sources : relays[src]["data"] = 0 /\ relays[src]["end"] = 0

AllBuffers(list) == list # <<>> /\ \A i \in DOMAIN list : list[i].kind = "buffer"

\* what the chunks collapse to: their text when they are byte buffers, the
\* sequence of chunks otherwise
Collapsed(list) ==
  IF AllBuffers(list) THEN Text(toString(concat(list))) ELSE List(list)

\* C14: the promise is pending until the stream raises `end' or `error'; when
\* `end' comes first it is resolved to the collapsed chunks, when `error' comes
\* first it is rejected, and a later signal does not change the outcome.
C14_PromiseOutcome ==
  /\ firstSignal = "none" => settled = "pending"
  /\ firstSignal = "end" => (settled = "resolved" /\ value = Collapsed(results))
  /\ firstSignal = "error" => (settled = "rejected" /\ value = NoValue)

\* C15: a frame whose error member is set raises `message' and then exactly
\* one `error' and nothing else, whatever state and results it also carries:
\* no `listening', `results' or `result', no chunk pushed, the three flags
\* unchanged, the transport not closed, the readable side not ended.
CarriesError(frame) == frame.type = "object" /\ frame.error = "set"

C15_ErrorFrame ==
  [][ (lastOp'.op = "message" /\ CarriesError(lastOp'.frame)) =>
        /\ ev' = <<"message", "error">>
        /\ ~threw'
        /\ pushed' = <<>>
        /\ listening' = listening
        /\ initialized' = initialized
        /\ finished' = finished
        /\ socket' = socket
        /\ ~didClose'
        /\ closeCalled' = closeCalled
        /\ ended' = ended
        /\ sent' = sent ]_vars

\* an error frame that also reports listening and carries a results array
\* arrives in a listening session
C15_Witness ==
  /\ lastOp.op = "message"
  /\ CarriesError(lastOp.frame)
  /\ lastOp.frame.state = "listening"
  /\ lastOp.frame.results.kind = "array"
  /\ ev = <<"message", "error">>
  /\ listening
  /\ socket = "open"

\* C16: no audio chunk and no stop frame is handed to the transport after the
\* adapter has called close on it (the transport is closing) or after the
\* transport has reported close (it is closed).
C16_NoSendAfterClose ==
  \A i \in Calls("audio") \cup Calls("stop") : sent[i].rs \notin {"closing", "closed"}

\* C17: the stop frame is the last frame of the session: no audio chunk is
\* handed to the transport after it.
C17_StopFrameLast ==
  \A i \in Calls("stop"), j \in Calls("audio") : j < i

\* C18: once end-of-output has been signalled on the readable side, no handler
\* pushes a transcript to it.
C18_NoPushAfterEnd ==
  [][ ended >= 1 => pushed' = <<>> ]_vars

\* C19: when the transport's close has been handled and `close' raised,
\* end-of-output has been signalled on the readable side.
C19_CloseEndsReadable ==
  lastOp.op = "close" => ended >= 1

\* C20: every write the adapter has accepted eventually has its completion
\* callback invoked.
C20_WritesComplete ==
  \A id \in 1..MaxWrites : (cur = id) ~> (id \in DoneIds)

====
